---- MODULE Spec2Model ----
(***************************************************************************)
(* Model of the markdown section patch engine of the Writegeist AI         *)
(* service: the normalizer (utils/normalize_md.py), the section            *)
(* locator/editor and the patch orchestrator (main.py).                    *)
(*                                                                         *)
(* A Python str is a sequence of one-character strings.  Regular           *)
(* expressions are translated to the scans that re.sub / re.match perform  *)
(* (leftmost, non-overlapping, greedy).                                    *)
(***************************************************************************)
EXTENDS Integers, Sequences, FiniteSets, TLC

VARIABLES
    nInput,   \* normalizer calls: the text handed to the normalizer
    nPc,      \* normalizer calls: which call has been made
    nOut,     \* normalizer calls: result of the last call
    nPrev,    \* normalizer calls: result of the call before the last one
    sDoc,     \* section editor calls: the document argument
    sName,    \* section editor calls: the section_name argument
    sBody,    \* section editor calls: the new_content / replace argument
    sPc,      \* section editor calls: which call has been made
    sOut,     \* section editor calls: result of the last call
    sPrev,    \* section editor calls: result of the call before the last one
    dbFile,   \* service: TRUE iff the file writegeist.db exists
    dbRows,   \* service: the markdown of the rows with id = 1 (at most one)
    req,      \* service: per worker thread, the request it is handling
    served    \* service: number of requests received so far

nvars == <<nInput, nPc, nOut, nPrev>>

svars == <<sDoc, sName, sBody, sPc, sOut, sPrev>>

dvars == <<dbFile, dbRows, req, served>>

vars == <<nInput, nPc, nOut, nPrev, sDoc, sName, sBody, sPc, sOut, sPrev,
          dbFile, dbRows, req, served>>

----------------------------------------------------------------------------
(* Character classes and str / re primitives of Python on the modelled     *)
(* alphabet.  re.sub scans left to right and replaces the leftmost,        *)
(* non-overlapping matches: SubScan does the same over a table that gives, *)
(* for every index, the length of the match that starts there (0: none).   *)

\* \s of re and the default character set of str.strip()
IsSpace(c) == c \in {" ", "\t", "\n", "\r", "\f"}

\* the class [ \t]
IsSpTab(c) == c \in {" ", "\t"}

\* the indexes 1..n in increasing order
Indexes(n) == [i \in 1..n |-> i]

\* True iff pat occurs in text starting at index i
StartsWithAt(text, i, pat) ==
    /\ i >= 1
    /\ i + Len(pat) - 1 <= Len(text)
    /\ \A k \in 1..Len(pat) : text[i + k - 1] = pat[k]

\* the character c occurs in text (Python: c in text)
HasChar(text, c) == \E i \in 1..Len(text) : text[i] = c

\* pat occurs somewhere in text (Python: pat in text)
Contains(text, pat) == \E i \in 1..Len(text) : StartsWithAt(text, i, pat)

\* the indexes j >= i with text[j] = c, in increasing order
IndexesOf(text, i, c) ==
    LET Hit(j) == j >= i /\ text[j] = c IN SelectSeq(Indexes(Len(text)), Hit)

\* smallest index j >= i with text[j] = c, or 0 when there is none
IndexFrom(text, i, c) ==
    IF IndexesOf(text, i, c) = <<>> THEN 0 ELSE IndexesOf(text, i, c)[1]

\* text[i:] of Python, for a 1-based index i
DropTo(text, i) == SubSeq(text, i, Len(text))

RECURSIVE SubScanFrom(_, _, _, _)
SubScanFrom(text, starts, rep, k) ==
    IF k > Len(starts) THEN <<>>
    ELSE LET from == starts[k][1]
             to == starts[k][1] + starts[k][2] - 1
             Later(m) == m > k /\ starts[m][1] > to
             next == SelectSeq(Indexes(Len(starts)), Later)
             stop == IF next = <<>> THEN Len(text) ELSE starts[next[1]][1] - 1
         IN  rep \o SubSeq(text, to + 1, stop)
                 \o (IF next = <<>> THEN <<>> ELSE SubScanFrom(text, starts, rep, next[1]))

\* re.sub(pattern, rep, text) where matchLen[i] is the length of the match of
\* pattern that starts at index i, or 0
SubScan(text, matchLen, rep) ==
    LET IsStart(i) == matchLen[i] > 0
        at == SelectSeq(Indexes(Len(text)), IsStart)
        starts == [k \in 1..Len(at) |-> <<at[k], matchLen[at[k]]>>]
    IN  IF at = <<>> THEN text
        ELSE SubSeq(text, 1, at[1] - 1) \o SubScanFrom(text, starts, rep, 1)

\* str.replace(pat, rep) and re.sub of a literal pattern
str_replace(text, pat, rep) ==
    SubScan(text,
            [i \in 1..Len(text) |->
                IF text[i] = pat[1] /\ StartsWithAt(text, i, pat) THEN Len(pat) ELSE 0],
            rep)

\* str.split('\n')
split_nl(text) ==
    LET nl == IndexesOf(text, 1, "\n") IN
    [k \in 1..(Len(nl) + 1) |->
        SubSeq(text,
               IF k = 1 THEN 1 ELSE nl[k - 1] + 1,
               IF k = Len(nl) + 1 THEN Len(text) ELSE nl[k] - 1)]

RECURSIVE JoinRange(_, _, _)
JoinRange(lines, lo, hi) ==
    IF lo > hi THEN <<>>
    ELSE IF lo = hi THEN lines[lo]
    ELSE JoinRange(lines, lo, (lo + hi) \div 2) \o <<"\n">>
            \o JoinRange(lines, (lo + hi) \div 2 + 1, hi)

\* '\n'.join(lines)
join_nl(lines) == JoinRange(lines, 1, Len(lines))

\* ''.join(parts)
RECURSIVE Concat(_)
Concat(parts) == IF parts = <<>> THEN <<>> ELSE parts[1] \o Concat(Tail(parts))

\* end index of the maximal run of \s characters starting at i (i - 1 if none)
RECURSIVE SpaceRunEnd(_, _)
SpaceRunEnd(text, i) ==
    IF i <= Len(text) /\ IsSpace(text[i]) THEN SpaceRunEnd(text, i + 1) ELSE i - 1

\* start index of the maximal run of \s characters ending at i (i + 1 if none)
RECURSIVE SpaceRunStart(_, _)
SpaceRunStart(text, i) ==
    IF i >= 1 /\ IsSpace(text[i]) THEN SpaceRunStart(text, i - 1) ELSE i + 1

\* number of leading \s characters of text
SpacePrefixLen(text) == SpaceRunEnd(text, 1)

\* number of trailing \s characters of text
SpaceSuffixLen(text) == Len(text) - SpaceRunStart(text, Len(text)) + 1

\* str.lstrip()
lstrip(text) == DropTo(text, SpacePrefixLen(text) + 1)

\* str.rstrip()
rstrip(text) == SubSeq(text, 1, Len(text) - SpaceSuffixLen(text))

\* str.strip()
strip(text) == lstrip(rstrip(text))

\* length of the maximal run of '\n' starting at i
RECURSIVE NewlineRunLen(_, _)
NewlineRunLen(text, i) ==
    IF i <= Len(text) /\ text[i] = "\n" THEN 1 + NewlineRunLen(text, i + 1) ELSE 0

\* str.lstrip('\n')
lstrip_nl(text) == DropTo(text, NewlineRunLen(text, 1) + 1)

----------------------------------------------------------------------------
(* utils/normalize_md.py : clean_html_artifacts                            *)

\* SubItemBoundary with the replacement '* ': the items stay on one line
SubItemBoundary_NoNewline(text) ==
    str_replace(text, <<"<", "/", "l", "i", ">", "<", "l", "i", ">">>, <<"*", " ">>)

\* re.sub(r'</li><li>', '\n* ', text)
SubItemBoundary(text) ==
    str_replace(text, <<"<", "/", "l", "i", ">", "<", "l", "i", ">">>,
                <<"\n", "*", " ">>)

\* re.sub(r'</?TAG>', '', text)
SubListTags(text, tag) ==
    SubScan(text,
            [i \in 1..Len(text) |->
                IF text[i] # "<" THEN 0
                ELSE IF StartsWithAt(text, i, <<"<">> \o tag \o <<">">>) THEN Len(tag) + 2
                ELSE IF StartsWithAt(text, i, <<"<", "/">> \o tag \o <<">">>)
                     THEN Len(tag) + 3
                ELSE 0],
            <<>>)

\* re.sub(r'</?ul>', '', text) followed by re.sub(r'</?ol>', '', text)
StripListContainers(text) ==
    SubListTags(SubListTags(text, <<"u", "l">>), <<"o", "l">>)

\* re.sub(r'<li[^>]*>', '* ', text)
SubItemOpen(text) ==
    SubScan(text,
            [i \in 1..Len(text) |->
                IF text[i] = "<"
                   /\ StartsWithAt(text, i, <<"<", "l", "i">>)
                   /\ IndexFrom(text, i + 3, ">") # 0
                THEN IndexFrom(text, i + 3, ">") - i + 1
                ELSE 0],
            <<"*", " ">>)

\* re.sub(r'</li>', '', text)
StripItemClose(text) == str_replace(text, <<"<", "/", "l", "i", ">">>, <<>>)

\* StripTags with the pattern <[^>]+> : an empty tag '<>' is not stripped
StripTags_NonEmpty(text) ==
    SubScan(text,
            [i \in 1..Len(text) |->
                IF text[i] = "<" /\ IndexFrom(text, i + 1, ">") > i + 1
                THEN IndexFrom(text, i + 1, ">") - i + 1
                ELSE 0],
            <<>>)

\* re.sub(r'<[^>]*>', '', text)
StripTags(text) ==
    SubScan(text,
            [i \in 1..Len(text) |->
                IF text[i] = "<" /\ IndexFrom(text, i + 1, ">") # 0
                THEN IndexFrom(text, i + 1, ">") - i + 1
                ELSE 0],
            <<>>)

\* the six regular-expression passes, in source order; every pattern starts
\* with '<', so no pass changes a text without '<'
StripMarkup(text) ==
    IF ~HasChar(text, "<") THEN text
    ELSE StripTags(StripItemClose(SubItemOpen(StripListContainers(
            SubItemBoundary(text)))))

EntLt   == <<"&", "l", "t", ";">>
EntGt   == <<"&", "g", "t", ";">>
EntAmp  == <<"&", "a", "m", "p", ";">>
EntQuot == <<"&", "q", "u", "o", "t", ";">>
EntApos == <<"&", "#", "3", "9", ";">>
EntNbsp == <<"&", "n", "b", "s", "p", ";">>

\* the six str.replace calls, in source order; every entity starts with '&',
\* so no call changes a text without '&'
DecodeEntities(text) ==
    LET t1 == str_replace(text, EntLt, <<"<">>)
        t2 == str_replace(t1, EntGt, <<">">>)
        t3 == str_replace(t2, EntAmp, <<"&">>)
        t4 == str_replace(t3, EntQuot, <<"\"">>)
        t5 == str_replace(t4, EntApos, <<"'">>)
    IN  IF ~HasChar(text, "&") THEN text
        ELSE str_replace(t5, EntNbsp, <<" ">>)

clean_html_artifacts(text) ==
    IF text = <<>> THEN <<>> ELSE DecodeEntities(StripMarkup(text))

----------------------------------------------------------------------------
(* utils/normalize_md.py : normalize_markdown                              *)

\* text.replace('\r\n', '\n').replace('\r', '\n')
UnixLineEndings(text) ==
    IF ~HasChar(text, "\r") THEN text
    ELSE str_replace(str_replace(text, <<"\r", "\n">>, <<"\n">>), <<"\r">>, <<"\n">>)

\* line without the spaces and tabs at its end
RECURSIVE RStripSpTab(_)
RStripSpTab(line) ==
    IF line # <<>> /\ IsSpTab(line[Len(line)])
    THEN RStripSpTab(SubSeq(line, 1, Len(line) - 1))
    ELSE line

\* re.sub(r'[ \t]+$', '', text, flags=re.MULTILINE): every run of spaces
\* and tabs that ends at a '\n' or at the end of the text is removed
StripTrailingSpTab(text) ==
    LET lines == split_nl(text)
    IN  join_nl([k \in 1..Len(lines) |-> RStripSpTab(lines[k])])

\* length of the prefix of line matched by ^\s*\*\s*\*\s+ , or 0
DoubledBulletLen(line) ==
    LET a == SpacePrefixLen(line)
        r1 == DropTo(line, a + 1)
    IN  IF r1 = <<>> \/ r1[1] # "*" THEN 0
        ELSE LET b == SpacePrefixLen(Tail(r1))
                 r2 == DropTo(r1, b + 2)
             IN  IF r2 = <<>> \/ r2[1] # "*" THEN 0
                 ELSE LET c == SpacePrefixLen(Tail(r2))
                      IN  IF c = 0 THEN 0 ELSE a + 1 + b + 1 + c

\* FixDoubledBullet with the replacement '*': no space after the marker
FixDoubledBullet_NoSpace(line) ==
    IF DoubledBulletLen(line) > 0
    THEN <<"*">> \o DropTo(line, DoubledBulletLen(line) + 1)
    ELSE line

\* re.sub(r'^\s*\*\s*\*\s+', '* ', line) guarded by the same re.match
FixDoubledBullet(line) ==
    IF DoubledBulletLen(line) > 0
    THEN <<"*", " ">> \o DropTo(line, DoubledBulletLen(line) + 1)
    ELSE line

\* line.strip() == '*'
IsStandaloneAsterisk(line) == strip(line) = <<"*">>

\* the loop over lines: skip standalone asterisks, repair doubled bullets
CleanBulletLines(lines) ==
    LET Kept(line) == ~IsStandaloneAsterisk(line)
        kept == SelectSeq(lines, Kept)
    IN  [k \in 1..Len(kept) |-> FixDoubledBullet(kept[k])]

\* split, clean the lines, join; a text without '*' has no line to skip or
\* to repair
CleanBullets(text) ==
    IF ~HasChar(text, "*") THEN text
    ELSE join_nl(CleanBulletLines(split_nl(text)))

\* the indexes of the '\n' among text[i..j], in increasing order
NewlinesIn(text, i, j) ==
    LET Hit(k) == text[k] = "\n"
    IN  SelectSeq([k \in 1..(j - i + 1) |-> i + k - 1], Hit)

\* re.sub(r'\n\s*\n\s*\n\s*\n+', '\n\n', text): a match starts at a '\n'
\* whose whitespace run holds four or more '\n' and ends at the last of them
CollapseSpacedBlankLines(text) ==
    SubScan(text,
            [i \in 1..Len(text) |->
                IF text[i] = "\n"
                   /\ Len(NewlinesIn(text, i, SpaceRunEnd(text, i))) >= 4
                THEN LET nl == NewlinesIn(text, i, SpaceRunEnd(text, i))
                     IN  nl[Len(nl)] - i + 1
                ELSE 0],
            <<"\n", "\n">>)

\* CollapseNewlineRuns with the pattern \n{4,}
CollapseNewlineRuns_FourOrMore(text) ==
    SubScan(text,
            [i \in 1..Len(text) |->
                IF text[i] = "\n" /\ NewlineRunLen(text, i) >= 4
                THEN NewlineRunLen(text, i)
                ELSE 0],
            <<"\n", "\n">>)

\* re.sub(r'\n{3,}', '\n\n', text)
CollapseNewlineRuns(text) ==
    SubScan(text,
            [i \in 1..Len(text) |->
                IF text[i] = "\n" /\ NewlineRunLen(text, i) >= 3
                THEN NewlineRunLen(text, i)
                ELSE 0],
            <<"\n", "\n">>)

\* text.lstrip('\n') then text.rstrip() + '\n'
TrimEnds(text) == rstrip(lstrip_nl(text)) \o <<"\n">>

normalize_markdown(text) ==
    IF text = <<>> THEN <<>>
    ELSE TrimEnds(CollapseNewlineRuns(CollapseSpacedBlankLines(
            CleanBullets(StripTrailingSpTab(UnixLineEndings(
                clean_html_artifacts(text)))))))

----------------------------------------------------------------------------
(* main.py : section locator / editor                                      *)

UpperChars == <<"A", "B", "C", "D", "E", "F", "G", "H", "I", "J", "K", "L", "M",
                "N", "O", "P", "Q", "R", "S", "T", "U", "V", "W", "X", "Y", "Z">>

LowerChars == <<"a", "b", "c", "d", "e", "f", "g", "h", "i", "j", "k", "l", "m",
                "n", "o", "p", "q", "r", "s", "t", "u", "v", "w", "x", "y", "z">>

\* the lower-case letter of every upper-case letter
LowerOf ==
    [c \in {UpperChars[i] : i \in 1..26} |->
        LowerChars[CHOOSE i \in 1..26 : UpperChars[i] = c]]

\* LowerChar without the re.I flag: letters are compared as written
LowerChar_CaseSensitive(c) == c

\* case folding done by the re.I flag
LowerChar(c) == IF c \in DOMAIN LowerOf THEN LowerOf[c] ELSE c

LowerStr(text) == [i \in 1..Len(text) |-> LowerChar(text[i])]

AllSpace(text, i, j) == \A k \in i..j : IsSpace(text[k])

\* re.match(rf'^\s*##\s+{re.escape(section_name)}\s*$', line, re.I):
\* a whitespace, '##', b >= 1 whitespace, the literal name, whitespace to the end
HeadingMatches(line, section_name) ==
    LET a == SpacePrefixLen(line)
        lowLine == LowerStr(line)
        lowName == LowerStr(section_name)
    IN  /\ StartsWithAt(line, a + 1, <<"#", "#">>)
        /\ \E b \in 1..(Len(line) - a - 2) :
              /\ AllSpace(line, a + 3, a + 2 + b)
              /\ StartsWithAt(lowLine, a + 3 + b, lowName)
              /\ AllSpace(line, a + 3 + b + Len(section_name), Len(line))

\* IsHeadingLine with the pattern ^\s*## : a '### ' line is a heading too
IsHeadingLine_AnyLevel(line) ==
    StartsWithAt(line, SpacePrefixLen(line) + 1, <<"#", "#">>)

\* re.match(r'^\s*##\s+', line)
IsHeadingLine(line) ==
    LET a == SpacePrefixLen(line) IN
    /\ StartsWithAt(line, a + 1, <<"#", "#">>)
    /\ a + 3 <= Len(line)
    /\ IsSpace(line[a + 3])

\* FindHeading without the break: the last matching line is kept
FindHeading_LastMatch(lines, section_name) ==
    LET Hit(i) == HeadingMatches(lines[i], section_name)
        hits == SelectSeq(Indexes(Len(lines)), Hit)
    IN  IF hits = <<>> THEN 0 ELSE hits[Len(hits)]

\* index of the first line that matches the heading of section_name, or 0
FindHeading(lines, section_name) ==
    LET Hit(i) == HeadingMatches(lines[i], section_name)
        hits == SelectSeq(Indexes(Len(lines)), Hit)
    IN  IF hits = <<>> THEN 0 ELSE hits[1]

\* index of the first heading line after line h, or Len(lines) + 1
FindSectionEnd(lines, h) ==
    LET Hit(i) == i > h /\ IsHeadingLine(lines[i])
        hits == SelectSeq(Indexes(Len(lines)), Hit)
    IN  IF hits = <<>> THEN Len(lines) + 1 ELSE hits[1]

\* not line.strip()
IsBlankLine(line) == strip(line) = <<>>

\* while content_lines and not content_lines[0].strip(): pop(0)
DropLeadingBlank(lines) ==
    LET Content(i) == ~IsBlankLine(lines[i])
        c == SelectSeq(Indexes(Len(lines)), Content)
    IN  IF c = <<>> THEN <<>> ELSE SubSeq(lines, c[1], Len(lines))

\* while content_lines and not content_lines[-1].strip(): pop()
DropTrailingBlank(lines) ==
    LET Content(i) == ~IsBlankLine(lines[i])
        c == SelectSeq(Indexes(Len(lines)), Content)
    IN  IF c = <<>> THEN <<>> ELSE SubSeq(lines, 1, c[Len(c)])

\* the two while loops that pop blank lines at both ends
TrimBlankLines(lines) == DropTrailingBlank(DropLeadingBlank(lines))

\* a leading standalone asterisk line, and the blank lines after it, is popped
DropLeadingAsterisk(lines) ==
    IF lines # <<>> /\ IsStandaloneAsterisk(lines[1])
    THEN DropLeadingBlank(Tail(lines))
    ELSE lines

extract_section(markdown, section_name) ==
    LET lines == split_nl(markdown)
        h == FindHeading(lines, section_name)
        e == FindSectionEnd(lines, h)
    IN  IF h = 0 THEN <<>>
        ELSE join_nl(DropLeadingAsterisk(TrimBlankLines(SubSeq(lines, h + 1, e - 1))))

\* AppendSection without the test of the last line: always a separator
AppendSection_AlwaysSeparates(lines, section_name, new_content) ==
    join_nl(lines
            \o << <<>> >>
            \o << <<"#", "#", " ">> \o section_name >>
            \o << <<>> >>
            \o split_nl(new_content))

\* the branch taken when no heading matches: append a new section
AppendSection(lines, section_name, new_content) ==
    join_nl(lines
            \o (IF lines # <<>> /\ ~IsBlankLine(lines[Len(lines)]) THEN << <<>> >> ELSE <<>>)
            \o << <<"#", "#", " ">> \o section_name >>
            \o << <<>> >>
            \o split_nl(new_content))

\* ReplaceSection that copies the rest from section_start: the old body stays
ReplaceSection_KeepsOldBody(lines, h, new_content) ==
    join_nl(SubSeq(lines, 1, h)
            \o (IF strip(new_content) # <<>> THEN split_nl(new_content) ELSE <<>>)
            \o SubSeq(lines, h + 1, Len(lines)))

\* ReplaceSection that copies the rest from section_end + 1: the next heading
\* line is dropped
ReplaceSection_SkipsNextHeading(lines, h, new_content) ==
    LET e == FindSectionEnd(lines, h) IN
    join_nl(SubSeq(lines, 1, h)
            \o (IF strip(new_content) # <<>> THEN split_nl(new_content) ELSE <<>>)
            \o (IF e < Len(lines) THEN SubSeq(lines, e + 1, Len(lines)) ELSE <<>>))

\* ReplaceSection without the test of new_content.strip(): a blank body is
\* written as its (blank) lines
ReplaceSection_BlankPlaceholder(lines, h, new_content) ==
    LET e == FindSectionEnd(lines, h) IN
    join_nl(SubSeq(lines, 1, h)
            \o split_nl(new_content)
            \o (IF e <= Len(lines) THEN SubSeq(lines, e, Len(lines)) ELSE <<>>))

\* the branch taken when the heading is line h: replace lines h+1 .. e-1
ReplaceSection(lines, h, new_content) ==
    LET e == FindSectionEnd(lines, h) IN
    join_nl(SubSeq(lines, 1, h)
            \o (IF strip(new_content) # <<>> THEN split_nl(new_content) ELSE <<>>)
            \o (IF e <= Len(lines) THEN SubSeq(lines, e, Len(lines)) ELSE <<>>))

apply_patch_to_section(markdown, section_name, new_content) ==
    LET lines == split_nl(markdown)
        h == FindHeading(lines, section_name)
    IN  IF h = 0 THEN AppendSection(lines, section_name, new_content)
        ELSE ReplaceSection(lines, h, new_content)

----------------------------------------------------------------------------
(* main.py : the heading pattern as the re module reads it.  The name is   *)
(* passed through re.escape and compiled inside ^\s*##\s+ ... \s*$ with    *)
(* re.I.  The modelled pattern fragment: an escaped character, a plain     *)
(* character, '.', each optionally followed by one of + * ? ; brackets,    *)
(* anchors and alternation outside an escape are reported as re.error, as  *)
(* the re module does for the unbalanced ones; so is a doubled quantifier  *)
(* (re.error before Python 3.11).  Names hold no backslash.                *)

\* the characters re.escape puts a backslash before
SpecialChars ==
    {"(", ")", "[", "]", "{", "}", "?", "*", "+", "-", "|", "^", "$", "\\",
     ".", "&", "~", "#", " ", "\t", "\n", "\r", "\f"}

\* re.escape without any escaping
re_escape_Identity(name) == name

\* re.escape(name)
re_escape(name) ==
    Concat([i \in 1..Len(name) |->
                IF name[i] \in SpecialChars THEN <<"\\", name[i]>> ELSE <<name[i]>>])

Quantifiers == {"+", "*", "?"}

Brackets == {"(", ")", "[", "]", "{", "}", "|", "^", "$"}

\* the items of the pattern from index i on; ok is FALSE when the re module
\* raises re.error
RECURSIVE ParseFrom(_, _)
ParseFrom(pat, i) ==
    IF i > Len(pat) THEN [ok |-> TRUE, items |-> <<>>]
    ELSE IF pat[i] \in Quantifiers \cup Brackets THEN [ok |-> FALSE, items |-> <<>>]
    ELSE IF pat[i] = "\\" /\ i = Len(pat) THEN [ok |-> FALSE, items |-> <<>>]
    ELSE LET escaped == pat[i] = "\\"
             j == IF escaped THEN i + 2 ELSE i + 1
             q == IF j <= Len(pat) /\ pat[j] \in Quantifiers THEN pat[j] ELSE "1"
             rest == ParseFrom(pat, IF q = "1" THEN j ELSE j + 1)
             item == [any |-> ~escaped /\ pat[i] = ".",
                      ch |-> IF escaped THEN pat[i + 1] ELSE pat[i],
                      q |-> q]
         IN  [ok |-> rest.ok, items |-> <<item>> \o rest.items]

\* re.compile of the name part of the heading pattern
NamePattern(section_name) == ParseFrom(re_escape(section_name), 1)

\* the item matches the character c under re.I
ItemMatches(item, c) ==
    IF item.any THEN c # "\n" ELSE LowerChar(item.ch) = LowerChar(c)

\* length of the maximal run of characters from pos on that the item matches
RECURSIVE ItemRun(_, _, _)
ItemRun(item, text, pos) ==
    IF pos <= Len(text) /\ ItemMatches(item, text[pos])
    THEN 1 + ItemRun(item, text, pos + 1)
    ELSE 0

\* the positions where a match of the item that starts at pos can end
ItemEnds(item, text, pos) ==
    LET run == ItemRun(item, text, pos) IN
    CASE item.q = "1" -> IF run >= 1 THEN {pos + 1} ELSE {}
      [] item.q = "+" -> {pos + m : m \in 1..run}
      [] item.q = "*" -> {pos + m : m \in 0..run}
      [] item.q = "?" -> {pos + m : m \in 0..(IF run >= 1 THEN 1 ELSE 0)}

\* the positions where a match of items[k..] that starts in starts can end
RECURSIVE ItemsEnds(_, _, _, _)
ItemsEnds(items, k, text, starts) ==
    IF k > Len(items) THEN starts
    ELSE ItemsEnds(items, k + 1, text,
                   UNION {ItemEnds(items[k], text, pos) : pos \in starts})

\* re.match of the compiled heading pattern on line
HeadingMatchesRe(line, items) ==
    LET a == SpacePrefixLen(line)
        afterGap == {a + 3 + b : b \in {b \in 1..(Len(line) - a - 2) :
                                            AllSpace(line, a + 3, a + 2 + b)}}
    IN  /\ StartsWithAt(line, a + 1, <<"#", "#">>)
        /\ \E e \in ItemsEnds(items, 1, line, afterGap) : AllSpace(line, e, Len(line))

\* index of the first line the compiled heading pattern matches, or 0
FindHeadingRe(lines, items) ==
    LET Hit(i) == HeadingMatchesRe(lines[i], items)
        hits == SelectSeq(Indexes(Len(lines)), Hit)
    IN  IF hits = <<>> THEN 0 ELSE hits[1]

\* the value that stands for an exception raised by the call
Raised == <<"re.error">>

\* extract_section, with the heading found by the compiled pattern
extract_section_re(markdown, section_name) ==
    LET lines == split_nl(markdown)
        compiled == NamePattern(section_name)
        h == FindHeadingRe(lines, compiled.items)
        e == FindSectionEnd(lines, h)
    IN  IF ~compiled.ok THEN Raised
        ELSE IF h = 0 THEN <<>>
        ELSE join_nl(DropLeadingAsterisk(TrimBlankLines(SubSeq(lines, h + 1, e - 1))))

\* apply_patch_to_section, with the heading found by the compiled pattern
apply_patch_to_section_re(markdown, section_name, new_content) ==
    LET lines == split_nl(markdown)
        compiled == NamePattern(section_name)
        h == FindHeadingRe(lines, compiled.items)
    IN  IF ~compiled.ok THEN Raised
        ELSE IF h = 0 THEN AppendSection(lines, section_name, new_content)
        ELSE ReplaceSection(lines, h, new_content)

----------------------------------------------------------------------------
(* main.py : accept_patch, the section branch between load and save        *)

\* normalize the patch, apply it to the section, normalize the document
PatchDocument(current_markdown, section_name, replace) ==
    normalize_markdown(
        apply_patch_to_section(current_markdown, section_name,
                               normalize_markdown(replace)))

----------------------------------------------------------------------------
(* main.py : the document store and the helpers of the request handlers    *)

\* the text returned by create_default_project_markdown()
create_default_project_markdown ==
    <<"#", " ", "M", "y", " ", "P", "r", "o", "j", "e", "c", "t", "\n", "\n",
      "#", "#", " ", "I", "d", "e", "a", "s", "-", "N", "o", "t", "e", "s",
      "\n", "\n", "#", "#", " ", "S", "e", "t", "t", "i", "n", "g", "\n",
      "\n", "#", "#", " ", "F", "u", "l", "l", " ", "O", "u", "t", "l", "i",
      "n", "e", "\n", "\n", "#", "#", " ", "C", "h", "a", "r", "a", "c", "t",
      "e", "r", "s">>

\* the reserved section name of accept_patch
FULL_DOCUMENT_SYNC ==
    <<"F", "U", "L", "L", "_", "D", "O", "C", "U", "M", "E", "N", "T", "_",
      "S", "Y", "N", "C">>

Procs == {1, 2}

\* a worker thread that handles no request.  kind: the handler that runs;
\* cur: the value returned by load_markdown; via: the branch load_markdown
\* took; body: the markdown of the response; failed: an access to the store
\* has raised during the request; stale: another request has committed a
\* write after this one loaded (history); last: the latest committed write
\* to the store was made by this request (history)
IdleReq ==
    [pc |-> "idle", kind |-> "", section |-> <<>>, replace |-> <<>>, cur |-> <<>>,
     via |-> "", loaded |-> FALSE, patched |-> FALSE, status |-> 0,
     body |-> <<>>, failed |-> FALSE, stale |-> FALSE, last |-> FALSE]

\* the service variables while only pure functions are exercised
ServiceOff ==
    /\ dbFile = FALSE
    /\ dbRows = <<>>
    /\ req = [p \in Procs |-> IdleReq]
    /\ served = 0

\* save_markdown_to_database, committed: INSERT OR REPLACE of row 1
save_markdown_to_database(markdown) ==
    /\ dbFile' = TRUE
    /\ dbRows' = <<markdown>>

\* a store access that raises: nothing is committed; connecting may have
\* created the database file
StoreFailure ==
    /\ dbFile' \in {dbFile, TRUE}
    /\ dbRows' = dbRows

\* the requests after worker p has committed a write: p is the latest
\* writer, and the other requests that hold a loaded document now hold an
\* outdated one
AfterCommit(r, p) ==
    [q \in Procs |->
        IF q = p THEN [r[q] EXCEPT !.last = TRUE]
        ELSE [r[q] EXCEPT !.last = FALSE,
                          !.stale = r[q].stale \/ r[q].pc = "loaded"]]

\* CurrentMarkdown that reads the store again when the patch is applied
CurrentMarkdown_Reread(p) ==
    IF dbRows = <<>> \/ dbRows[1] = <<>> THEN create_default_project_markdown
    ELSE normalize_markdown(dbRows[1])

\* accept_patch: current_markdown after the test of an empty load
CurrentMarkdown(p) ==
    IF req[p].cur = <<>> THEN create_default_project_markdown ELSE req[p].cur

\* get_project_section with a 404 answer for an empty section
GetSectionStatus_EmptyIsNotFound(markdown_content, section_content) ==
    IF markdown_content = <<>> \/ section_content = <<>> THEN 404 ELSE 200

\* get_project_section: 404 for an empty document; extract_section never
\* returns None, so the second 404 is never answered
GetSectionStatus(markdown_content, section_content) ==
    IF markdown_content = <<>> THEN 404 ELSE 200

\* patch.section.strip() == "FULL_DOCUMENT_SYNC"
IsFullSync(section) == strip(section) = FULL_DOCUMENT_SYNC

\* SyncDocument without the normalization
SyncDocument_Raw(replace) == replace

\* the document saved by the full document sync branch
SyncDocument(replace) == normalize_markdown(replace)

----------------------------------------------------------------------------
(* Bounded input sets                                                      *)

MaxHtmlFrags   == 3
MaxBulletFrags == 4
MaxBlankFrags  == 5
MaxDocLines    == 3
MaxBodyLines   == 2
MaxPipeDocLines  == 2
MaxPipeBodyLines == 1
MaxRequests      == 2
MaxLiteralLines  == 2
MaxExtractLines  == 3
MaxEntityFrags   == 3
MaxListFrags     == 3
MaxPatches       == 2

\* every concatenation of at most n members of frags
TextsOver(frags, n) ==
    {Concat(fs) : fs \in UNION {[1..k -> frags] : k \in 0..n}}

\* every document of 1..n lines drawn from lineSet
DocsOver(lineSet, n) ==
    {join_nl(ls) : ls \in UNION {[1..k -> lineSet] : k \in 1..n}}

HtmlFrags ==
    {EntAmp, EntLt, EntGt, EntQuot, EntNbsp, <<"l", "t", ";">>,
     <<"<">>, <<">">>, <<"x">>, <<"\n">>,
     <<"<", "l", "i", ">">>, <<"<", "/", "l", "i", ">">>}

BulletFrags ==
    {<<"*", " ", "*", " ">>, <<"*">>, <<" ">>, <<"x">>, <<"\n">>, <<"\f">>, <<"\r">>}

BlankFrags == {<<"x">>, <<"\n">>, <<"\n", "\n">>, <<" ">>, <<"\t">>}

NormInputs ==
    TextsOver(HtmlFrags, MaxHtmlFrags) \cup TextsOver(BulletFrags, MaxBulletFrags)
        \cup TextsOver(BlankFrags, MaxBlankFrags)

HeadS   == <<"#", "#", " ", "S">>
HeadT   == <<"#", "#", " ", "T">>
HeadVar == <<" ", "#", "#", " ", " ", "s", " ">>

DocLines == {<<>>, <<"a">>, HeadS, HeadT, HeadVar}

BodyLines == {<<>>, <<"b">>, <<"*">>, HeadT}

SectionNames == {<<"S">>, <<"T">>, <<"U">>}

PatchNames == {<<"S">>, <<"U">>}

\* section names sent to accept_patch
SectionSetting ==
    <<"S", "e", "t", "t", "i", "n", "g">>

SectionPlot ==
    <<"P", "l", "o", "t">>

ServiceSections ==
    {FULL_DOCUMENT_SYNC, <<" ">> \o FULL_DOCUMENT_SYNC \o <<" ">>,
     SectionSetting, SectionPlot, <<" ">>}

\* replace bodies sent to accept_patch
ServiceBodies == {<<>>, <<"X", " ">>}

\* a stored document written by an earlier patch
StoredDoc ==
    <<"#", " ", "P", "\n", "\n", "#", "#", " ", "S", "e", "t", "t", "i", "n",
      "g", "\n", "\n", "O", "l", "d", "\n">>

\* documents found in the store when the service starts
InitialDocs == {<<>>, create_default_project_markdown, StoredDoc}

----------------------------------------------------------------------------
(* Calls of the normalizer                                                 *)

NormInit ==
    /\ nInput \in NormInputs
    /\ nPc = "input"
    /\ nOut = <<>>
    /\ nPrev = <<>>
    /\ sDoc = <<>> /\ sName = <<>> /\ sBody = <<>>
    /\ sPc = "off" /\ sOut = <<>> /\ sPrev = <<>>
    /\ ServiceOff

CallClean ==
    /\ nPc = "input"
    /\ nOut' = clean_html_artifacts(nInput)
    /\ nPc' = "cleaned"
    /\ UNCHANGED <<nInput, nPrev, svars, dvars>>

CallNormalize ==
    /\ nPc = "input"
    /\ nOut' = normalize_markdown(nInput)
    /\ nPc' = "normalized"
    /\ UNCHANGED <<nInput, nPrev, svars, dvars>>

CallNormalizeAgain ==
    /\ nPc = "normalized"
    /\ nPrev' = nOut
    /\ nOut' = normalize_markdown(nOut)
    /\ nPc' = "renormalized"
    /\ UNCHANGED <<nInput, svars, dvars>>

NormNext == CallClean \/ CallNormalize \/ CallNormalizeAgain

SpecNorm == NormInit /\ [][NormNext]_vars

\* pieces of encoded text: the encoded ampersand, what may follow it, and
\* whole entities
EntityFrags ==
    {EntAmp, EntLt, EntQuot, <<"l", "t", ";">>, <<"g", "t", ";">>,
     <<"q", "u", "o", "t", ";">>, <<"#", "3", "9", ";">>,
     <<"n", "b", "s", "p", ";">>, <<"&">>, <<"x">>}

EntityInit ==
    /\ nInput \in TextsOver(EntityFrags, MaxEntityFrags)
    /\ nPc = "input"
    /\ nOut = <<>>
    /\ nPrev = <<>>
    /\ sDoc = <<>> /\ sName = <<>> /\ sBody = <<>>
    /\ sPc = "off" /\ sOut = <<>> /\ sPrev = <<>>
    /\ ServiceOff

EntityNext == CallClean

TagUl      == <<"<", "u", "l", ">">>
TagUlClose == <<"<", "/", "u", "l", ">">>
TagOl      == <<"<", "o", "l", ">">>
TagOlClose == <<"<", "/", "o", "l", ">">>
TagLi      == <<"<", "l", "i", ">">>
TagLiClose == <<"<", "/", "l", "i", ">">>
TagLiAttr  == <<"<", "l", "i", " ", "a", ">">>

\* list markup and plain text
ListFrags ==
    {TagUl, TagUlClose, TagOl, TagOlClose, TagLi, TagLiClose, TagLiAttr,
     <<"x">>, <<"\n">>}

\* the list of tests/test_html_cleanup.py, with one-letter items, as an
\* unordered and as an ordered list
ListExamples ==
    {TagUl \o TagLi \o <<"x">> \o TagLiClose \o TagLi \o <<"y">> \o TagLiClose
        \o TagUlClose,
     TagOl \o TagLiAttr \o <<"x">> \o TagLiClose \o TagLi \o <<"y">> \o TagLiClose
        \o TagOlClose}

ListInit ==
    /\ nInput \in TextsOver(ListFrags, MaxListFrags) \cup ListExamples
    /\ nPc = "input"
    /\ nOut = <<>>
    /\ nPrev = <<>>
    /\ sDoc = <<>> /\ sName = <<>> /\ sBody = <<>>
    /\ sPc = "off" /\ sOut = <<>> /\ sPrev = <<>>
    /\ ServiceOff

ListNext == CallClean

SpecList == ListInit /\ [][ListNext]_vars

SpecEntity == EntityInit /\ [][EntityNext]_vars

----------------------------------------------------------------------------
(* Calls of the section editor and of the patch pipeline                   *)

SectionInit ==
    /\ sDoc \in DocsOver(DocLines, MaxDocLines)
    /\ sName \in PatchNames
    /\ sBody \in DocsOver(BodyLines, MaxBodyLines)
    /\ sPc = "input"
    /\ sOut = <<>>
    /\ sPrev = <<>>
    /\ nInput = <<>> /\ nPc = "off" /\ nOut = <<>> /\ nPrev = <<>>
    /\ ServiceOff

CallApplyPatch ==
    /\ sPc = "input"
    /\ sOut' = apply_patch_to_section(sDoc, sName, sBody)
    /\ sPc' = "patched"
    /\ UNCHANGED <<sDoc, sName, sBody, sPrev, nvars, dvars>>

SectionNext == CallApplyPatch

SpecSection == SectionInit /\ [][SectionNext]_vars

\* replace bodies of the heading-lookup calls: empty, whitespace-only, one
\* content line, a standalone '*', and a body that carries a heading
LookupBodies ==
    {<<>>, <<" ">>, <<"\n">>, <<"b">>, <<"*">>, join_nl(<<<<"b">>, HeadT>>)}

LookupInit ==
    /\ sDoc \in DocsOver(DocLines, MaxDocLines)
    /\ sName \in PatchNames
    /\ sBody \in LookupBodies
    /\ sPc = "input"
    /\ sOut = <<>>
    /\ sPrev = <<>>
    /\ nInput = <<>> /\ nPc = "off" /\ nOut = <<>> /\ nPrev = <<>>
    /\ ServiceOff

LookupNext == CallApplyPatch

SpecLookup == LookupInit /\ [][LookupNext]_vars

\* a third-level heading, and a second-level heading written with a leading
\* space and a tab after the hashes
SubHeading   == <<"#", "#", "#", " ", "x">>
HeadIndented == <<" ", "#", "#", "\t", "T">>

ExtractLines == {<<>>, <<"a">>, <<"*">>, HeadS, HeadIndented, SubHeading}

ExtractInit ==
    /\ sDoc \in DocsOver(ExtractLines, MaxExtractLines)
    /\ sName \in PatchNames
    /\ sBody = <<>>
    /\ sPc = "input"
    /\ sOut = <<>>
    /\ sPrev = <<>>
    /\ nInput = <<>> /\ nPc = "off" /\ nOut = <<>> /\ nPrev = <<>>
    /\ ServiceOff

CallExtract ==
    /\ sPc = "input"
    /\ sOut' = extract_section(sDoc, sName)
    /\ sPc' = "extracted"
    /\ UNCHANGED <<sDoc, sName, sBody, sPrev, nvars, dvars>>

ExtractNext == CallExtract

SpecExtract == ExtractInit /\ [][ExtractNext]_vars

----------------------------------------------------------------------------
(* Calls of the section locator with names that hold pattern characters    *)

NameDot   == <<"A", ".", "B">>
NamePlus  == <<"C", "+">>
NameGroup == <<"X", "(", "*", ")">>

LiteralNames == {NameDot, NamePlus, NameGroup}

LiteralLines ==
    {<<"#", "#", " ">> \o NameDot, <<"#", "#", " ", "A", "x", "B">>,
     <<"#", "#", " ", "a", ".", "b", " ">>,
     <<"#", "#", " ">> \o NamePlus, <<"#", "#", " ", "C", "C">>, <<"#", "#", " ", "C">>,
     <<"#", "#", " ">> \o NameGroup, <<"#", "#", " ", "X">>, <<"a">>}

LiteralInit ==
    /\ sDoc \in DocsOver(LiteralLines, MaxLiteralLines)
    /\ sName \in LiteralNames
    /\ sBody = <<"b">>
    /\ sPc = "input"
    /\ sOut = <<>>
    /\ sPrev = <<>>
    /\ nInput = <<>> /\ nPc = "off" /\ nOut = <<>> /\ nPrev = <<>>
    /\ ServiceOff

CallExtractLiteral ==
    /\ sPc = "input"
    /\ sOut' = extract_section_re(sDoc, sName)
    /\ sPc' = "name_extracted"
    /\ UNCHANGED <<sDoc, sName, sBody, sPrev, nvars, dvars>>

CallApplyPatchLiteral ==
    /\ sPc = "input"
    /\ sOut' = apply_patch_to_section_re(sDoc, sName, sBody)
    /\ sPc' = "name_patched"
    /\ UNCHANGED <<sDoc, sName, sBody, sPrev, nvars, dvars>>

LiteralNext == CallExtractLiteral \/ CallApplyPatchLiteral

SpecLiteral == LiteralInit /\ [][LiteralNext]_vars

----------------------------------------------------------------------------
(* Calls of the patch pipeline of accept_patch, twice with the same patch  *)

PipelineInit ==
    /\ sDoc \in DocsOver(DocLines, MaxPipeDocLines)
    /\ sName \in PatchNames
    /\ sBody \in DocsOver(BodyLines, MaxPipeBodyLines)
    /\ sPc = "input"
    /\ sOut = <<>>
    /\ sPrev = <<>>
    /\ nInput = <<>> /\ nPc = "off" /\ nOut = <<>> /\ nPrev = <<>>
    /\ ServiceOff

CallPatchDocument ==
    /\ sPc = "input"
    /\ sOut' = PatchDocument(sDoc, sName, sBody)
    /\ sPc' = "applied"
    /\ UNCHANGED <<sDoc, sName, sBody, sPrev, nvars, dvars>>

CallPatchDocumentAgain ==
    /\ sPc = "applied"
    /\ sPrev' = sOut
    /\ sOut' = PatchDocument(sOut, sName, sBody)
    /\ sPc' = "reapplied"
    /\ UNCHANGED <<sDoc, sName, sBody, nvars, dvars>>

PipelineNext == CallPatchDocument \/ CallPatchDocumentAgain

SpecPipeline == PipelineInit /\ [][PipelineNext]_vars

----------------------------------------------------------------------------
(* Successful section patches handled one after the other: each request    *)
(* loads the stored document, patches it and stores the result             *)

HeadPlot == <<"#", "#", " ">> \o SectionPlot

\* section names of the successive patches: a section of the default
\* document, a new section, and the new section in lower case with spaces
\* around it
SequenceSections ==
    {SectionSetting, SectionPlot, <<" ", "p", "l", "o", "t", " ">>}

\* bodies of the successive patches: empty, content, and bodies that hold a
\* heading line
SequenceBodies ==
    {<<>>, <<"X">>, HeadPlot, join_nl(<<<<"X">>, HeadPlot, <<"Y">>>>)}

SequenceInit ==
    /\ sDoc = create_default_project_markdown
    /\ sName = <<>>
    /\ sBody = <<>>
    /\ sPc = "stored"
    /\ sOut = <<>>
    /\ sPrev = <<>>
    /\ nInput = <<>> /\ nPc = "off" /\ nOut = <<>> /\ nPrev = <<>>
    /\ ServiceOff

\* accept_patch, section branch, without a failure and without another
\* request in between: load_markdown normalizes the stored document, the
\* patch pipeline runs on it and the result is stored
PatchStored(section, replace) ==
    /\ served < MaxPatches
    /\ strip(section) # <<>>
    /\ ~IsFullSync(section)
    /\ sPrev' = sDoc
    /\ sDoc' = PatchDocument(normalize_markdown(sDoc), strip(section), replace)
    /\ sName' = section
    /\ sBody' = replace
    /\ served' = served + 1
    /\ UNCHANGED <<sPc, sOut, nvars, dbFile, dbRows, req>>

SequenceNext ==
    \E section \in SequenceSections : \E replace \in SequenceBodies :
        PatchStored(section, replace)

SpecSequence == SequenceInit /\ [][SequenceNext]_vars

----------------------------------------------------------------------------
(* main.py : the request handlers, one step per access to the store        *)

ServiceInit ==
    /\ dbFile \in BOOLEAN
    /\ dbRows \in {<<>>} \cup (IF dbFile THEN {<<d>> : d \in InitialDocs} ELSE {})
    /\ req = [p \in Procs |-> IdleReq]
    /\ served = 0
    /\ nInput = <<>> /\ nPc = "off" /\ nOut = <<>> /\ nPrev = <<>>
    /\ sDoc = <<>> /\ sName = <<>> /\ sBody = <<>>
    /\ sPc = "off" /\ sOut = <<>> /\ sPrev = <<>>

\* accept_patch: the section name is empty after strip() -> 400
AcceptPatchReject(p, section, replace) ==
    /\ req[p].pc = "idle"
    /\ served < MaxRequests
    /\ strip(section) = <<>>
    /\ req' = [req EXCEPT ![p] = [IdleReq EXCEPT !.pc = "done", !.kind = "patch",
                                                 !.section = section,
                                                 !.replace = replace, !.status = 400]]
    /\ served' = served + 1
    /\ UNCHANGED <<dbFile, dbRows, nvars, svars>>

\* accept_patch: the full document sync branch, normalize and save
AcceptPatchFullSync(p, section, replace) ==
    /\ req[p].pc = "idle"
    /\ served < MaxRequests
    /\ strip(section) # <<>>
    /\ IsFullSync(section)
    /\ \/ /\ save_markdown_to_database(SyncDocument(replace))
          /\ req' = [AfterCommit(req, p) EXCEPT
                        ![p] = [IdleReq EXCEPT !.pc = "done", !.kind = "patch",
                                               !.section = section, !.last = TRUE,
                                               !.replace = replace, !.status = 202]]
       \/ /\ StoreFailure
          /\ req' = [req EXCEPT ![p] = [IdleReq EXCEPT !.pc = "done", !.kind = "patch",
                                                       !.section = section,
                                                       !.replace = replace, !.status = 500,
                                                       !.failed = TRUE]]
    /\ served' = served + 1
    /\ UNCHANGED <<nvars, svars>>

\* accept_patch: the section branch up to the call of load_markdown
AcceptPatchBegin(p, section, replace) ==
    /\ req[p].pc = "idle"
    /\ served < MaxRequests
    /\ strip(section) # <<>>
    /\ ~IsFullSync(section)
    /\ req' = [req EXCEPT ![p] = [IdleReq EXCEPT !.pc = "load", !.kind = "patch",
                                                 !.section = section,
                                                 !.replace = replace]]
    /\ served' = served + 1
    /\ UNCHANGED <<dbFile, dbRows, nvars, svars>>

\* load_markdown: the database file does not exist
LoadNoFile(p) ==
    /\ req[p].pc = "load"
    /\ ~dbFile
    /\ req' = [req EXCEPT ![p].pc = "create", ![p].via = "nofile", ![p].loaded = TRUE]
    /\ UNCHANGED <<dbFile, dbRows, served, nvars, svars>>

\* load_markdown: an access to the database raises; the outer handler
\* returns the default document
LoadFallback(p) ==
    /\ req[p].pc = "load"
    /\ dbFile
    /\ req' = [req EXCEPT ![p].pc = "loaded", ![p].loaded = TRUE,
                          ![p].via = "fallback", ![p].failed = TRUE,
                          ![p].cur = create_default_project_markdown]
    /\ UNCHANGED <<dbFile, dbRows, served, nvars, svars>>

\* load_markdown: the SELECT finds no row with id = 1
LoadNoRow(p) ==
    /\ req[p].pc = "load"
    /\ dbFile
    /\ dbRows = <<>>
    /\ req' = [req EXCEPT ![p].pc = "create", ![p].via = "norow", ![p].loaded = TRUE]
    /\ UNCHANGED <<dbFile, dbRows, served, nvars, svars>>

\* load_markdown: the SELECT finds the row; an empty markdown is replaced by
\* the default document; the content is normalized
LoadRow(p) ==
    /\ req[p].pc = "load"
    /\ dbFile
    /\ dbRows # <<>>
    /\ req' = [req EXCEPT ![p].pc = "loaded", ![p].loaded = TRUE,
                          ![p].cur = normalize_markdown(
                              IF dbRows[1] = <<>> THEN create_default_project_markdown
                              ELSE dbRows[1])]
    /\ UNCHANGED <<dbFile, dbRows, served, nvars, svars>>

\* create_default_project_doc: INSERT OR REPLACE of the default document;
\* an error is swallowed; load_markdown returns the default document,
\* normalized unless the file was missing
create_default_project_doc(p) ==
    /\ req[p].pc = "create"
    /\ LET returned == IF req[p].via = "nofile"
                       THEN create_default_project_markdown
                       ELSE normalize_markdown(create_default_project_markdown)
       IN  \/ /\ save_markdown_to_database(create_default_project_markdown)
              /\ req' = [AfterCommit(req, p) EXCEPT ![p].pc = "loaded",
                                                    ![p].cur = returned]
           \/ /\ StoreFailure
              /\ req' = [req EXCEPT ![p].pc = "loaded", ![p].cur = returned,
                                    ![p].failed = TRUE]
    /\ UNCHANGED <<served, nvars, svars>>

\* accept_patch: patch the loaded document and save it
AcceptPatchSave(p) ==
    /\ req[p].pc = "loaded"
    /\ req[p].kind = "patch"
    /\ LET final == PatchDocument(CurrentMarkdown(p), strip(req[p].section),
                                  req[p].replace)
       IN  \/ /\ save_markdown_to_database(final)
              /\ req' = [AfterCommit(req, p) EXCEPT ![p].pc = "done",
                                                    ![p].patched = TRUE,
                                                    ![p].status = 202]
           \/ /\ StoreFailure
              /\ req' = [req EXCEPT ![p].pc = "done", ![p].patched = TRUE,
                                    ![p].status = 500, ![p].failed = TRUE]
    /\ UNCHANGED <<served, nvars, svars>>

\* the response has been sent; the worker thread is free again
Respond(p) ==
    /\ req[p].pc = "done"
    /\ req' = [req EXCEPT ![p] = IdleReq]
    /\ UNCHANGED <<dbFile, dbRows, served, nvars, svars>>

ServiceNext ==
    \/ \E p \in Procs : \E section \in ServiceSections : \E replace \in ServiceBodies :
            AcceptPatchReject(p, section, replace)
    \/ \E p \in Procs : \E section \in ServiceSections : \E replace \in ServiceBodies :
            AcceptPatchFullSync(p, section, replace)
    \/ \E p \in Procs : \E section \in ServiceSections : \E replace \in ServiceBodies :
            AcceptPatchBegin(p, section, replace)
    \/ \E p \in Procs : LoadNoFile(p)
    \/ \E p \in Procs : LoadFallback(p)
    \/ \E p \in Procs : LoadNoRow(p)
    \/ \E p \in Procs : LoadRow(p)
    \/ \E p \in Procs : create_default_project_doc(p)
    \/ \E p \in Procs : AcceptPatchSave(p)
    \/ \E p \in Procs : Respond(p)

Spec == ServiceInit /\ [][ServiceNext]_vars

----------------------------------------------------------------------------
(* main.py : get_project_section, with the steps of load_markdown          *)

\* section names sent to get_project_section
ReadSections == {SectionSetting, SectionPlot, <<" ">>}

\* get_project_section: the section name is empty after strip() -> 400
GetSectionReject(p, section) ==
    /\ req[p].pc = "idle"
    /\ served < MaxRequests
    /\ strip(section) = <<>>
    /\ req' = [req EXCEPT ![p] = [IdleReq EXCEPT !.pc = "done", !.kind = "get",
                                                 !.section = section, !.status = 400]]
    /\ served' = served + 1
    /\ UNCHANGED <<dbFile, dbRows, nvars, svars>>

\* get_project_section: up to the call of load_markdown
GetSectionBegin(p, section) ==
    /\ req[p].pc = "idle"
    /\ served < MaxRequests
    /\ strip(section) # <<>>
    /\ req' = [req EXCEPT ![p] = [IdleReq EXCEPT !.pc = "load", !.kind = "get",
                                                 !.section = section]]
    /\ served' = served + 1
    /\ UNCHANGED <<dbFile, dbRows, nvars, svars>>

\* get_project_section: extract the section of the loaded document,
\* normalize it and answer
GetSectionRespond(p) ==
    /\ req[p].pc = "loaded"
    /\ req[p].kind = "get"
    /\ LET section_content == extract_section(req[p].cur, strip(req[p].section))
           status == GetSectionStatus(req[p].cur, section_content)
       IN  req' = [req EXCEPT ![p].pc = "done", ![p].status = status,
                             ![p].body = IF status = 200
                                         THEN normalize_markdown(section_content)
                                         ELSE <<>>]
    /\ UNCHANGED <<dbFile, dbRows, served, nvars, svars>>

ReadNext ==
    \/ \E p \in Procs : \E section \in ReadSections : GetSectionReject(p, section)
    \/ \E p \in Procs : \E section \in ReadSections : GetSectionBegin(p, section)
    \/ \E p \in Procs : LoadNoFile(p)
    \/ \E p \in Procs : LoadFallback(p)
    \/ \E p \in Procs : LoadNoRow(p)
    \/ \E p \in Procs : LoadRow(p)
    \/ \E p \in Procs : create_default_project_doc(p)
    \/ \E p \in Procs : GetSectionRespond(p)
    \/ \E p \in Procs : Respond(p)

SpecRead == ServiceInit /\ [][ReadNext]_vars

----------------------------------------------------------------------------
(* main.py : get_raw_project_doc next to the full document sync            *)

\* bodies of the full document sync: empty, whitespace-only, content, and an
\* encoded entity
RawBodies == {<<>>, <<" ">>, <<"X", " ">>, EntAmp \o <<"l", "t", ";">>}

\* get_raw_project_doc: up to the call of load_markdown
GetRawBegin(p) ==
    /\ req[p].pc = "idle"
    /\ served < MaxRequests
    /\ req' = [req EXCEPT ![p] = [IdleReq EXCEPT !.pc = "load", !.kind = "raw"]]
    /\ served' = served + 1
    /\ UNCHANGED <<dbFile, dbRows, nvars, svars>>

\* get_raw_project_doc: an empty loaded document is replaced by the default
\* document; the document is returned
GetRawRespond(p) ==
    /\ req[p].pc = "loaded"
    /\ req[p].kind = "raw"
    /\ req' = [req EXCEPT ![p].pc = "done", ![p].status = 200,
                          ![p].body = IF req[p].cur = <<>>
                                      THEN create_default_project_markdown
                                      ELSE req[p].cur]
    /\ UNCHANGED <<dbFile, dbRows, served, nvars, svars>>

RawNext ==
    \/ \E p \in Procs : \E replace \in RawBodies :
            AcceptPatchFullSync(p, FULL_DOCUMENT_SYNC, replace)
    \/ \E p \in Procs : GetRawBegin(p)
    \/ \E p \in Procs : LoadNoFile(p)
    \/ \E p \in Procs : LoadFallback(p)
    \/ \E p \in Procs : LoadNoRow(p)
    \/ \E p \in Procs : LoadRow(p)
    \/ \E p \in Procs : create_default_project_doc(p)
    \/ \E p \in Procs : GetRawRespond(p)
    \/ \E p \in Procs : Respond(p)

SpecRaw == ServiceInit /\ [][RawNext]_vars

----------------------------------------------------------------------------
(* Properties of the normalizer (checked under SpecNorm)                   *)

\* text holds a substring of the form '<...>'
HasTag(text) ==
    \E i \in 1..Len(text) : \E j \in (i + 1)..Len(text) :
        text[i] = "<" /\ text[j] = ">"

\* the last character of some line of text is a space or a tab
HasTrailingSpTab(text) ==
    \E i \in 1..Len(text) :
        IsSpTab(text[i]) /\ (i = Len(text) \/ text[i + 1] = "\n")

\* text ends with exactly one '\n'
EndsWithOneNewline(text) ==
    /\ Len(text) >= 1
    /\ text[Len(text)] = "\n"
    /\ (Len(text) >= 2 => text[Len(text) - 1] # "\n")

\* C1: normalize_markdown is idempotent: normalizing the result of
\* normalize_markdown(x) again gives the same text, for every x.
C1_NormalizeIdempotent == nPc = "renormalized" => nOut = nPrev

C9_TrailingForm ==
    (nPc = "normalized" /\ nInput # <<>>) =>
        /\ EndsWithOneNewline(nOut)
        /\ ~HasTrailingSpTab(nOut)

----------------------------------------------------------------------------
(* Properties of the section editor (checked under SpecSection) and of     *)
(* the patch pipeline (checked under SpecPipeline)                         *)

\* the document has a heading line for the section
HasSection(markdown, section_name) ==
    LET lines == split_nl(markdown)
    IN  \E i \in 1..Len(lines) : HeadingMatches(lines[i], section_name)

\* the line starts with the two hashes and a space of a second-level heading
StartsWithH2(line) == StartsWithAt(line, 1, <<"#", "#", " ">>)

\* the lines before the first heading line (a line matching ^\s*##\s+)
LinesBeforeHeading(lines) == SubSeq(lines, 1, FindSectionEnd(lines, 0) - 1)

\* B with its leading and trailing blank lines removed
TrimmedBody(body) == join_nl(TrimBlankLines(split_nl(body)))

\* C2: applying the same patch twice is idempotent: the pipeline of
\* accept_patch run on its own result with the same (s, b) returns that result.
C2_PatchTwiceIdempotent == sPc = "reapplied" => sOut = sPrev

C4_OtherSectionsUntouched ==
    sPc = "patched" =>
        \A t \in SectionNames :
            LowerStr(t) # LowerStr(sName) =>
                extract_section(sOut, t) = extract_section(sDoc, t)

\* index of the first line after line h that starts with '## ', or
\* Len(lines) + 1
NextH2(lines, h) ==
    IF \E i \in (h + 1)..Len(lines) : StartsWithH2(lines[i])
    THEN CHOOSE i \in (h + 1)..Len(lines) :
            StartsWithH2(lines[i]) /\ \A k \in (h + 1)..(i - 1) : ~StartsWithH2(lines[k])
    ELSE Len(lines) + 1

\* C5: when the heading exists, the lines up to and including the first
\* matching heading, and the lines from the next '## ' heading to the end,
\* are kept verbatim and in order; only the lines between them are replaced.
C5_FramePreserved ==
    (sPc = "patched" /\ HasSection(sDoc, sName)) =>
        LET old == split_nl(sDoc)
            new == split_nl(sOut)
            h == FindHeading(old, sName)
            e == NextH2(old, h)
            tail == Len(old) - e + 1
        IN  /\ Len(new) >= h + tail
            /\ SubSeq(new, 1, h) = SubSeq(old, 1, h)
            /\ SubSeq(new, Len(new) - tail + 1, Len(new)) = SubSeq(old, e, Len(old))

\* a section with lines before its heading and another heading after its body
\* was patched
C5_Witness ==
    /\ sPc = "patched"
    /\ sDoc = join_nl(<<HeadS, <<"a">>, HeadT>>)
    /\ sName = <<"S">>
    /\ sBody = <<"b">>
    /\ sOut = join_nl(<<HeadS, <<"b">>, HeadT>>)

\* the last line of the document is not blank
LastLineNonBlank(markdown) ==
    ~IsBlankLine(split_nl(markdown)[Len(split_nl(markdown))])

\* C6: when no line matches heading s, the result is doc verbatim, a blank
\* separator line only if doc's last line is non-blank, the line '## s', one
\* blank line, and the lines of B.
C6_AppendOnMissing ==
    (sPc = "patched" /\ ~HasSection(sDoc, sName)) =>
        sOut = sDoc
               \o (IF sDoc # <<>> /\ LastLineNonBlank(sDoc) THEN <<"\n">> ELSE <<>>)
               \o <<"\n", "#", "#", " ">> \o sName \o <<"\n", "\n">>
               \o sBody

\* a section missing from a document that ends in a content line was appended
C6_Witness ==
    /\ sPc = "patched"
    /\ ~HasSection(sDoc, sName)
    /\ sDoc = join_nl(<<HeadT, <<"a">>>>)
    /\ sBody = <<"b">>
    /\ sOut = join_nl(<<HeadT, <<"a">>, <<>>, <<"#", "#", " ">> \o sName, <<>>, <<"b">>>>)

\* the same name written in the other letter case
CaseTwin(section_name) ==
    IF section_name = <<"S">> THEN <<"s">> ELSE <<"u">>

\* C11: heading lookup is case-insensitive: for two names that differ only
\* in letter case extract_section returns the same body, and when the heading
\* exists apply_patch_to_section returns the same document for both, with the
\* original heading line kept as written.
C11_CaseInsensitive ==
    sPc = "patched" =>
        LET twin == CaseTwin(sName)
            h == FindHeading(split_nl(sDoc), sName)
        IN  /\ extract_section(sDoc, twin) = extract_section(sDoc, sName)
            /\ extract_section(sOut, twin) = extract_section(sOut, sName)
            /\ HasSection(sDoc, twin) <=> HasSection(sDoc, sName)
            /\ HasSection(sDoc, sName) =>
                    /\ apply_patch_to_section(sDoc, twin, sBody) = sOut
                    /\ split_nl(sOut)[h] = split_nl(sDoc)[h]

\* the section written '##  s' in the document was patched under the name 'S'
C11_Witness ==
    /\ sPc = "patched"
    /\ sDoc = join_nl(<<HeadVar, <<"a">>>>)
    /\ sName = <<"S">>
    /\ sBody = <<"b">>
    /\ sOut = join_nl(<<HeadVar, <<"b">>>>)

\* the indexes of the lines that match the heading of the section
MatchingHeadings(lines, section_name) ==
    LET Hit(i) == HeadingMatches(lines[i], section_name)
    IN  SelectSeq(Indexes(Len(lines)), Hit)

\* C19: first match wins: when several heading lines match the name,
\* extract_section returns the body that follows the first of them, and
\* apply_patch_to_section keeps the lines up to the first one and every line
\* from the second matching heading to the end of the document unchanged.
C19_FirstMatchWins ==
    (sPc = "patched" /\ Len(MatchingHeadings(split_nl(sDoc), sName)) >= 2) =>
        LET old == split_nl(sDoc)
            new == split_nl(sOut)
            first == MatchingHeadings(old, sName)[1]
            second == MatchingHeadings(old, sName)[2]
            rest == Len(old) - second + 1
        IN  /\ extract_section(sDoc, sName) =
                    join_nl(DropLeadingAsterisk(TrimBlankLines(
                        SubSeq(old, first + 1, FindSectionEnd(old, first) - 1))))
            /\ SubSeq(new, 1, first) = SubSeq(old, 1, first)
            /\ Len(new) >= first + rest
            /\ SubSeq(new, Len(new) - rest + 1, Len(new)) = SubSeq(old, second, Len(old))
            /\ Len(new) - rest =
                    first + (IF strip(sBody) # <<>> THEN Len(split_nl(sBody)) ELSE 0)
                          + (second - FindSectionEnd(old, first))

\* a document with two headings of the section, the second one with a body,
\* was patched: the body went under the first heading
C19_Witness ==
    /\ sPc = "patched"
    /\ sDoc = join_nl(<<HeadS, HeadVar, <<"a">>>>)
    /\ sName = <<"S">>
    /\ sBody = <<"b">>
    /\ sOut = join_nl(<<HeadS, <<"b">>, HeadVar, <<"a">>>>)

\* C20: when the heading exists and the new body is empty or whitespace-only,
\* the heading line stays and is followed directly by the next heading line
\* (a line matching ^\s*##\s+) or by the end of the document: no body line
\* and no blank placeholder line is written, and extract_section of the
\* section returns the empty string.
C20_EmptyReplacement ==
    (sPc = "patched" /\ HasSection(sDoc, sName) /\ strip(sBody) = <<>>) =>
        LET old == split_nl(sDoc)
            new == split_nl(sOut)
            h == FindHeading(old, sName)
        IN  /\ SubSeq(new, 1, h) = SubSeq(old, 1, h)
            /\ Len(new) = h \/ IsHeadingLine(new[h + 1])
            /\ Len(new) = Len(old) - (FindSectionEnd(old, h) - h - 1)
            /\ extract_section(sOut, sName) = <<>>

\* a section with a body and a following section was patched with a blank body
C20_Witness ==
    /\ sPc = "patched"
    /\ sDoc = join_nl(<<HeadS, <<"a">>, HeadT>>)
    /\ sName = <<"S">>
    /\ sBody = <<"\n">>
    /\ sOut = join_nl(<<HeadS, HeadT>>)

\* the text of a heading line: what follows the hashes, stripped
HeadingText(line) == strip(DropTo(lstrip(line), 3))

\* C12 (checked under SpecLiteral): literal-name safety: for a name that
\* holds pattern characters, extract_section and apply_patch_to_section never
\* raise, the heading they select has a text equal to the name up to letter
\* case, and a document without such a heading is read as having no section.
C12_LiteralNameSafety ==
    LET lines == split_nl(sDoc)
        h == FindHeadingRe(lines, NamePattern(sName).items)
        named == {i \in 1..Len(lines) :
                    /\ IsHeadingLine(lines[i])
                    /\ LowerStr(HeadingText(lines[i])) = LowerStr(sName)}
    IN  /\ sPc \in {"name_extracted", "name_patched"} =>
                /\ sOut # Raised
                /\ h # 0 => h \in named /\ \A i \in named : h <= i
                /\ h = 0 => named = {}
        /\ sPc = "name_extracted" => sOut = extract_section(sDoc, sName)
        /\ sPc = "name_patched" => sOut = apply_patch_to_section(sDoc, sName, sBody)

\* the section 'A.B' was patched in a document whose first heading is 'AxB'
C12_Witness ==
    /\ sPc = "name_patched"
    /\ sName = NameDot
    /\ sDoc = join_nl(<< <<"#", "#", " ", "A", "x", "B">>, <<"#", "#", " ">> \o NameDot >>)
    /\ sOut = join_nl(<< <<"#", "#", " ", "A", "x", "B">>, <<"#", "#", " ">> \o NameDot,
                         <<"b">> >>)

\* text without the newline at its end
WithoutTrailingNewline(text) ==
    IF text # <<>> /\ text[Len(text)] = "\n" THEN SubSeq(text, 1, Len(text) - 1)
    ELSE text

\* C17: end-to-end patch: for a normalized stored document D, a section name
\* s and a body b, the document R produced by the pipeline of accept_patch
\* satisfies extract_section(R, s) = normalize_markdown(b) without its
\* trailing newline, and extract_section(R, t) = extract_section(D, t) for
\* every other section t.
C17_EndToEndPatch ==
    (sPc = "applied" /\ sDoc # <<>> /\ normalize_markdown(sDoc) = sDoc) =>
        /\ extract_section(sOut, sName) =
                WithoutTrailingNewline(normalize_markdown(sBody))
        /\ \A t \in SectionNames :
                LowerStr(t) # LowerStr(sName) =>
                    extract_section(sOut, t) = extract_section(sDoc, t)

----------------------------------------------------------------------------
(* Properties of the request handlers (checked under Spec)                 *)

\* C10: when the trimmed section name is FULL_DOCUMENT_SYNC, accept_patch
\* finishes in its first step without calling load_markdown or the section
\* logic, and on success the store holds exactly normalize_markdown(replace).
C10_FullDocumentSync ==
    [][\A p \in Procs :
        (req[p].pc = "idle" /\ req'[p].pc # "idle"
            /\ strip(req'[p].section) = FULL_DOCUMENT_SYNC) =>
                /\ req'[p].pc = "done"
                /\ ~req'[p].loaded
                /\ ~req'[p].patched
                /\ req'[p].cur = <<>>
                /\ req'[p].status \in {202, 500}
                /\ req'[p].status = 202 =>
                        (dbFile' /\ dbRows' = <<normalize_markdown(req'[p].replace)>>)
                /\ req'[p].status = 500 => dbRows' = dbRows]_vars

\* a full document sync with a padded sentinel and a body that normalization
\* changes has succeeded and its document is the stored one
C10_Witness ==
    \E p \in Procs :
        /\ req[p].pc = "done"
        /\ req[p].section = <<" ">> \o FULL_DOCUMENT_SYNC \o <<" ">>
        /\ req[p].replace = <<"X", " ">>
        /\ req[p].status = 202
        /\ dbRows = << <<"X", "\n">> >>

\* the document has the normalized form: empty, or ending with exactly one
\* newline, without a run of three newlines and without a line that ends
\* with a space or a tab
NormalForm(text) ==
    \/ text = <<>>
    \/ /\ EndsWithOneNewline(text)
       /\ ~Contains(text, <<"\n", "\n", "\n">>)
       /\ ~HasTrailingSpTab(text)

C14_LastWriterWins ==
    \A p \in Procs : \A q \in Procs \ {p} :
        (/\ req[p].pc = "done" /\ req[p].patched /\ req[p].status = 202
         /\ req[q].pc = "done" /\ req[q].patched /\ req[q].status = 202
         /\ req[q].stale /\ req[q].last
         /\ LowerStr(strip(req[p].section)) # LowerStr(strip(req[q].section))) =>
            LET base == IF req[q].cur = <<>> THEN create_default_project_markdown
                        ELSE req[q].cur
            IN  /\ dbRows = <<PatchDocument(base, strip(req[q].section), req[q].replace)>>
                /\ extract_section(dbRows[1], strip(req[p].section)) =
                        extract_section(base, strip(req[p].section))

\* two patches of different sections loaded the same document; both were
\* saved, and the body of the first one is not in the store
C14_Witness ==
    \E p \in Procs : \E q \in Procs \ {p} :
        /\ req[p].pc = "done" /\ req[p].patched /\ req[p].status = 202
        /\ req[q].pc = "done" /\ req[q].patched /\ req[q].status = 202
        /\ req[q].stale /\ req[q].last
        /\ req[p].section = SectionSetting /\ req[p].replace = <<"X", " ">>
        /\ req[q].section = SectionPlot /\ req[q].replace = <<"X", " ">>
        /\ req[p].cur = StoredDoc /\ req[q].cur = StoredDoc
        /\ extract_section(dbRows[1], SectionSetting) = <<"O", "l", "d">>
        /\ extract_section(dbRows[1], SectionPlot) = <<"X">>

\* C15: a store failure is propagated: a request during which an access to
\* the store has raised never ends with a success response.
C15_StoreFailurePropagated ==
    \A p \in Procs :
        (req[p].pc = "done" /\ req[p].failed) => req[p].status >= 400

\* C16: no data loss across partial failures: when load_markdown has failed
\* during accept_patch, the step that ends the request leaves the stored
\* document as it was.
C16_NoWriteAfterFailedLoad ==
    [][\A p \in Procs :
        (req[p].pc = "loaded" /\ req[p].kind = "patch" /\ req[p].via = "fallback"
            /\ req'[p].pc = "done") => dbRows' = dbRows]_vars

\* C18: store invariant: every document value written to the store is in
\* normalized form.
C18_StoredIsNormalized ==
    [][dbRows' # dbRows => NormalForm(dbRows'[1])]_vars

\* the lines after line h up to the next line for which Ends holds
BodyAfter(lines, h, Ends(_)) ==
    LET Stop(i) == i > h /\ Ends(lines[i])
        stops == SelectSeq(Indexes(Len(lines)), Stop)
    IN  SubSeq(lines, h + 1, (IF stops = <<>> THEN Len(lines) + 1 ELSE stops[1]) - 1)

\* the line is '##' followed by a whitespace character, after optional
\* leading whitespace
EndsSection(line) ==
    LET t == lstrip(line)
    IN  Len(t) >= 3 /\ t[1] = "#" /\ t[2] = "#" /\ IsSpace(t[3])

\* C21: extract_section returns exactly the lines strictly between the first
\* matching heading and the next line that starts with '## ' (or the end of
\* the document), with only leading and trailing blank lines removed.
C21_ExactBody ==
    sPc = "extracted" =>
        LET lines == split_nl(sDoc)
            m == MatchingHeadings(lines, sName)
        IN  IF m = <<>> THEN sOut = <<>>
            ELSE sOut = join_nl(TrimBlankLines(BodyAfter(lines, m[1], StartsWithH2)))

\* C21 (amended): extract_section returns the lines strictly between the
\* first matching heading and the next line matching ^\s*##\s+ (or the end of
\* the document), with leading and trailing blank lines removed and then a
\* leading standalone '*' line, with the blank lines after it, removed; every
\* other line is returned unaltered, and a '### ' line does not end the
\* section.
C21_ExactBodyAmended ==
    sPc = "extracted" =>
        LET lines == split_nl(sDoc)
            m == MatchingHeadings(lines, sName)
            trimmed == TrimBlankLines(BodyAfter(lines, m[1], EndsSection))
        IN  IF m = <<>> THEN sOut = <<>>
            ELSE IF trimmed # <<>> /\ strip(trimmed[1]) = <<"*">>
            THEN sOut = join_nl(DropLeadingBlank(Tail(trimmed)))
            ELSE sOut = join_nl(trimmed)

\* a section whose body holds a '### ' sub-heading before a content line was
\* extracted whole
C21_Witness ==
    /\ sPc = "extracted"
    /\ sDoc = join_nl(<<HeadS, SubHeading, <<"a">>>>)
    /\ sName = <<"S">>
    /\ sOut = join_nl(<<SubHeading, <<"a">>>>)

\* the six entities with the character each one names
EntityTable ==
    <<<<EntLt, "<">>, <<EntGt, ">">>, <<EntAmp, "&">>, <<EntQuot, "\"">>,
      <<EntApos, "'">>, <<EntNbsp, " ">>>>

\* text[i..] with every entity occurrence of the text decoded once, in one
\* scan from left to right
RECURSIVE DecodedOnceFrom(_, _)
DecodedOnceFrom(text, i) ==
    IF i > Len(text) THEN <<>>
    ELSE IF \E k \in 1..Len(EntityTable) : StartsWithAt(text, i, EntityTable[k][1])
    THEN LET k == CHOOSE k \in 1..Len(EntityTable) :
                        StartsWithAt(text, i, EntityTable[k][1])
         IN  <<EntityTable[k][2]>> \o DecodedOnceFrom(text, i + Len(EntityTable[k][1]))
    ELSE <<text[i]>> \o DecodedOnceFrom(text, i + 1)

\* C22: clean_html_artifacts never double-unescapes: each entity occurrence
\* of the input is decoded at most once, so an encoded ampersand followed by
\* 'lt;', 'gt;', 'quot;', '#39;' or 'nbsp;' yields the literal entity text.
C22_NoDoubleUnescape ==
    nPc = "cleaned" => nOut = DecodedOnceFrom(nInput, 1)

\* C23: for every input x, the output of normalize_markdown(x) does not begin
\* with a newline, including when the input is only blank lines, only
\* whitespace, or only lines that normalization deletes.
C23_NoLeadingNewline ==
    nPc = "normalized" => (nOut = <<>> \/ nOut[1] # "\n")

\* the text holds only plain characters, spaces, tabs and newlines, and at
\* least one plain character
PlainText(text) ==
    /\ \A i \in 1..Len(text) : text[i] \in {"x", " ", "\t", "\n"}
    /\ HasChar(text, "x")

\* the content lines of text in their order, each without its trailing spaces
\* and tabs, with one empty line between two of them that are separated by
\* blank lines in text
ContentWithSingleBlanks(text) ==
    LET lines == split_nl(text)
        IsContent(i) == HasChar(lines[i], "x")
        c == SelectSeq(Indexes(Len(lines)), IsContent)
    IN  Concat([k \in 1..Len(c) |->
                    IF k > 1 /\ c[k] > c[k - 1] + 1
                    THEN << <<>>, RStripSpTab(lines[c[k]]) >>
                    ELSE << RStripSpTab(lines[c[k]]) >>])

BulletContent(line) == lstrip(Tail(lstrip(Tail(lstrip(line)))))

\* the line is: optional whitespace, asterisk, optional whitespace, asterisk,
\* one or more whitespace, content
IsDoubledBullet(line) ==
    LET t == lstrip(line)
        u == lstrip(Tail(t))
    IN  /\ t # <<>> /\ t[1] = "*"
        /\ u # <<>> /\ u[1] = "*"
        /\ Len(u) >= 2 /\ IsSpace(u[2])
        /\ BulletContent(line) # <<>>

\* the text has no form feed, no carriage return and no markup character,
\* and none of its lines is blank or a standalone asterisk
BulletLinesOnly(text) ==
    /\ \A i \in 1..Len(text) : text[i] \notin {"\f", "\r", "<", "&"}
    /\ \A k \in 1..Len(split_nl(text)) :
            strip(split_nl(text)[k]) \notin {<<>>, <<"*">>}

\* the lines of text, each without its trailing spaces and tabs, with the
\* lines for which Doubled holds rewritten to '* ' and their content
RepairedLines(text, Doubled(_)) ==
    LET lines == split_nl(text)
    IN  [k \in 1..Len(lines) |->
            LET line == RStripSpTab(lines[k])
            IN  IF Doubled(line) THEN <<"*", " ">> \o BulletContent(line) ELSE line]

\* the line starts with its first asterisk and is a doubled bullet
IsDoubledBulletAtStart(line) == IsDoubledBullet(line) /\ line[1] = "*"

C26_NoStandaloneAsterisk ==
    nPc = "normalized" =>
        \A k \in 1..Len(split_nl(nOut)) : strip(split_nl(nOut)[k]) # <<"*">>

\* the list markup that is removed or replaced as a whole, with what is
\* written in its place; the item boundary comes first
ListMarkup ==
    <<<<TagLiClose \o TagLi, <<"\n", "*", " ">>>>,
      <<TagUl, <<>>>>, <<TagUlClose, <<>>>>, <<TagOl, <<>>>>, <<TagOlClose, <<>>>>,
      <<TagLiClose, <<>>>>>>

\* text[i..] read once from left to right: list markup replaced as ListMarkup
\* says, an opening '<li ...>' tag replaced by '* ', everything else kept
RECURSIVE ListScanFrom(_, _)
ListScanFrom(text, i) ==
    IF i > Len(text) THEN <<>>
    ELSE IF \E k \in 1..Len(ListMarkup) : StartsWithAt(text, i, ListMarkup[k][1])
    THEN LET k == CHOOSE k \in 1..Len(ListMarkup) :
                    /\ StartsWithAt(text, i, ListMarkup[k][1])
                    /\ \A m \in 1..(k - 1) : ~StartsWithAt(text, i, ListMarkup[m][1])
         IN  ListMarkup[k][2] \o ListScanFrom(text, i + Len(ListMarkup[k][1]))
    ELSE IF StartsWithAt(text, i, <<"<", "l", "i">>)
    THEN <<"*", " ">> \o ListScanFrom(text, IndexFrom(text, i, ">") + 1)
    ELSE <<text[i]>> \o ListScanFrom(text, i + 1)

\* C27: HTML list conversion: clean_html_artifacts turns each adjacent
\* '</li><li>' boundary into a newline followed by '* ', each remaining
\* '<li ...>' opening tag into '* ', and removes '<ul>', '</ul>', '<ol>',
\* '</ol>' and '</li>' with no replacement; the rest of the text is kept.
C27_ListConversion ==
    nPc = "cleaned" => nOut = ListScanFrom(nInput, 1)

\* the two-item list was turned into two bullets on separate lines
C27_Witness ==
    /\ nPc = "cleaned"
    /\ nInput = TagUl \o TagLi \o <<"x">> \o TagLiClose \o TagLi \o <<"y">>
                    \o TagLiClose \o TagUlClose
    /\ nOut = <<"*", " ", "x", "\n", "*", " ", "y">>

\* the indexes of the heading lines (lines matching ^\s*##\s+) of the text
HeadingIndexes(text) ==
    LET lines == split_nl(text)
        Hit(i) == EndsSection(lines[i])
    IN  SelectSeq(Indexes(Len(lines)), Hit)

\* C28: heading uniqueness is preserved by patching: starting from the
\* default skeleton, after any sequence of successful accept_patch section
\* requests the stored document never contains two '## ' heading lines whose
\* names are equal up to letter case.
C28_HeadingsUnique ==
    LET lines == split_nl(sDoc)
        hs == HeadingIndexes(sDoc)
    IN  \A i \in 1..Len(hs) : \A j \in 1..Len(hs) :
            i < j => LowerStr(HeadingText(lines[hs[i]])) # LowerStr(HeadingText(lines[hs[j]]))

\* C29: a read never destroys a write: the load step of a request never
\* changes a document that has been stored; once a write has committed, the
\* stored document is not replaced by the default skeleton through the
\* create-if-absent path of load_markdown.
C29_ReadKeepsStored ==
    [][\A p \in Procs :
            (/\ req[p].pc \in {"load", "create"}
             /\ req'[p].pc # req[p].pc
             /\ dbRows # <<>>) => dbRows' = dbRows]_vars

\* C30: read-after-write for full sync: after accept_patch with section
\* FULL_DOCUMENT_SYNC and body b has succeeded and no other write has
\* intervened, get_raw_project_doc (loading without a failure) returns exactly
\* normalize_markdown(b), for every b including the empty string and
\* whitespace-only bodies.
C30_ReadAfterFullSync ==
    [][\A q \in Procs : \A p \in Procs \ {q} :
            (/\ req[q].kind = "raw" /\ req[q].pc = "loaded" /\ req'[q].pc = "done"
             /\ ~req[q].stale /\ ~req[q].failed
             /\ req[p].pc = "done" /\ req[p].kind = "patch" /\ req[p].status = 202
             /\ IsFullSync(req[p].section) /\ req[p].last) =>
                req'[q].body = normalize_markdown(req[p].replace)]_vars

====
